---- MODULE Spec2Model ----
(***************************************************************************)
(* Comment-node parsing of ts-morph (CommentNodeParser): the memoised      *)
(* child and token sequences of container nodes, in which real syntax      *)
(* nodes are interleaved with comment-list pseudo-nodes.                   *)
(*                                                                         *)
(* A source file is a text (a sequence of characters, offsets from 0) and  *)
(* the frozen syntax tree the TypeScript parser built for it.  The file    *)
(* holds one container under test: the source file itself, or a container  *)
(* nested in its first statement.                                          *)
(***************************************************************************)
EXTENDS Integers, Sequences, FiniteSets, TLC

(***************************************************************************)
(* Bounds of the model.                                                    *)
(***************************************************************************)
\* the most lexemes (children, commas, comments, blanks) in a container body
MaxItems == 3
\* the most lexemes in a body when several queries follow one another
MaxMemoItems == 2
MaxBodyPosItems == 2
\* how often the model lets the sequence of one node be computed
MaxCompute == 2
\* the most lexemes in a body when queries may fail
MaxErrorItems == 1

(***************************************************************************)
(* Source text.  A body is a sequence of lexemes; Chars gives the          *)
(* characters of each.  "x" is a real child (statement, member, property), *)
(* "cm" a comma between enum members or properties.                        *)
(***************************************************************************)
Chars(lx) ==
    CASE lx = "x"   -> <<"x">>
      [] lx = "y"   -> <<"y">>
      [] lx = "cm"  -> <<",">>
      [] lx = "nl"  -> <<"\n">>
      [] lx = "sp"  -> <<" ">>
      [] lx = "sl"  -> <<"/", "/", "\n">>
      [] lx = "ml"  -> <<"/", "*", "a", "*", "/">>
      [] lx = "doc" -> <<"/", "*", "*", "a", "*", "/">>
      [] lx = "emp" -> <<"/", "*", "*", "*", "/">>

RECURSIVE Flat(_)
Flat(body) ==
    IF body = <<>> THEN <<>> ELSE Chars(Head(body)) \o Flat(Tail(body))

RECURSIVE SortedSeq(_)
SortedSeq(S) ==
    IF S = {} THEN <<>>
    ELSE LET m == CHOOSE a \in S : \A b \in S : a <= b
         IN  <<m>> \o SortedSeq(S \ {m})

Last(s) == s[Len(s)]

\* the element of a one-element set: Only({e(v) : v \in {x}}) is e(x), with x
\* evaluated once
Only(S) == CHOOSE v \in S : TRUE

(***************************************************************************)
(* The syntax tree handed over by the TypeScript parser.  It is frozen:    *)
(* built once from the text and never changed.  Header and Footer give     *)
(* the text before and after the body of the container under test; the     *)
(* variants "missing" and "modsMissing" are the trees the parser recovers  *)
(* when the open brace (or the colon of a clause) is absent.               *)
(***************************************************************************)
StatementKinds ==
    {"SourceFile", "Block", "ModuleBlock", "CaseClause", "DefaultClause"}
MemberKinds ==
    {"ClassDeclaration", "InterfaceDeclaration", "EnumDeclaration",
     "ClassExpression", "TypeLiteral", "ObjectLiteralExpression"}
CommaKinds == {"EnumDeclaration", "ObjectLiteralExpression"}
ClauseKinds == {"CaseClause", "DefaultClause"}
\* line 22: commentNodeParserKinds
commentNodeParserKinds == StatementKinds \cup MemberKinds

Variants(kind) ==
    CASE kind = "ClassDeclaration" -> {"ok", "missing", "modsMissing"}
      [] kind \in {"InterfaceDeclaration", "EnumDeclaration"} \cup ClauseKinds
                                   -> {"ok", "missing"}
      [] OTHER                     -> {"ok"}

Header(kind, variant) ==
    CASE kind = "SourceFile"              -> <<>>
      [] kind = "Block"                   -> <<"\n", "{">>
      [] kind = "ModuleBlock"             -> <<"N", " ", "{">>
      [] kind = "ClassDeclaration"        ->
            IF variant = "ok" THEN <<"C", "{">>
            ELSE IF variant = "missing" THEN <<"C">>
            ELSE <<"m", " ", "C">>
      [] kind = "InterfaceDeclaration"    ->
            IF variant = "ok" THEN <<"I", "{">> ELSE <<"I">>
      [] kind = "EnumDeclaration"         ->
            IF variant = "ok" THEN <<"E", "{">> ELSE <<"E">>
      [] kind = "ClassExpression"         -> <<"(", "C", "{">>
      [] kind = "TypeLiteral"             -> <<"T", "{">>
      [] kind = "ObjectLiteralExpression" -> <<"(", "{">>
      [] kind = "CaseClause"              ->
            IF variant = "ok" THEN <<"S", "{", "k", ":">> ELSE <<"S", "{", "k">>
      [] kind = "DefaultClause"           ->
            IF variant = "ok" THEN <<"S", "{", "d", ":">> ELSE <<"S", "{", "d">>

Footer(kind, variant) ==
    CASE kind = "SourceFile" -> <<>>
      [] kind \in {"ClassExpression", "ObjectLiteralExpression"} -> <<"}", ")">>
      [] kind \in MemberKinds /\ variant # "ok" -> <<>>
      [] OTHER -> <<"}">>

\* the body's children belong to the source file when the file is the
\* container under test, or when the container lost its open brace
OwnerIsFile(kind, variant) ==
    kind = "SourceFile" \/ (kind \in MemberKinds /\ variant # "ok")

IsSig(lx) == lx \in {"x", "y", "cm"}
IsChildLx(lx) == lx \in {"x", "y"}

ItemOff(body, H, i) == H + Len(Flat(SubSeq(body, 1, i - 1)))
ItemEnd(body, H, i) == ItemOff(body, H, i) + Len(Chars(body[i]))
\* a line comment ends before its line break
CommentEndOf(body, H, i) ==
    IF body[i] = "sl" THEN ItemEnd(body, H, i) - 1 ELSE ItemEnd(body, H, i)

PrevSigIdx(body, i) ==
    LET S == {j \in 1..(i - 1) : IsSig(body[j])}
    IN  IF S = {} THEN 0 ELSE CHOOSE a \in S : \A b \in S : b <= a
PrevSigEnd(body, H, i) ==
    IF PrevSigIdx(body, i) = 0 THEN H ELSE ItemEnd(body, H, PrevSigIdx(body, i))
LastSigEnd(body, H) == PrevSigEnd(body, H, Len(body) + 1)

XNames == <<"x1", "x2", "x3", "x4", "x5", "x6", "x7", "x8">>
CNames == <<"c1", "c2", "c3", "c4", "c5", "c6", "c7", "c8">>
ChildIds(body) ==
    LET idx == SortedSeq({i \in 1..Len(body) : IsChildLx(body[i])})
    IN  [k \in 1..Len(idx) |-> XNames[idx[k]]]
ListChildIds(body) ==
    LET idx == SortedSeq({i \in 1..Len(body) : IsSig(body[i])})
    IN  [k \in 1..Len(idx) |->
            IF body[idx[k]] = "cm" THEN CNames[idx[k]] ELSE XNames[idx[k]]]

\* the parser attaches to a child that can carry documentation every leading
\* comment "/**..." whose fourth character is not "/"
JsDocOf(body, H, i) ==
    IF body[i] # "x" THEN <<>>
    ELSE LET idx == SortedSeq({j \in (PrevSigIdx(body, i) + 1)..(i - 1) :
                                   body[j] \in {"doc", "emp"}})
         IN  [k \in 1..Len(idx) |->
                 [pos |-> ItemOff(body, H, idx[k]), end |-> ItemEnd(body, H, idx[k])]]

Node(kind, pos, start, end, parent, children, members, jsDoc) ==
    [kind |-> kind, pos |-> pos, start |-> start, end |-> end, parent |-> parent,
     children |-> children, members |-> members, jsDoc |-> jsDoc]
Token(kind, pos, end, parent) ==
    Node(kind, pos, pos, end, parent, <<>>, <<>>, <<>>)

WrapperKinds ==
    {"ModuleBlock", "ClassExpression", "TypeLiteral", "ObjectLiteralExpression",
     "CaseClause", "DefaultClause"}

ContainerPos(kind) ==
    CASE kind \in {"Block", "ClassDeclaration", "InterfaceDeclaration",
                   "EnumDeclaration"} -> 0
      [] kind \in ClauseKinds -> 2
      [] OTHER -> 1
ContainerStart(kind) ==
    CASE kind = "Block" -> 1
      [] kind = "ModuleBlock" -> 2
      [] OTHER -> ContainerPos(kind)

ContainerChildren(kind, variant) ==
    CASE kind \in {"Block", "ModuleBlock", "TypeLiteral", "ObjectLiteralExpression"}
            -> <<"Open", "CList", "Close">>
      [] kind \in ClauseKinds ->
            IF variant = "ok" THEN <<"Kw", "Colon", "CList">> ELSE <<"Kw", "CList">>
      [] variant = "ok"          -> <<"Kw", "Open", "CList", "Close">>
      [] variant = "missing"     -> <<"Kw", "CList">>
      [] variant = "modsMissing" -> <<"ModList", "Kw", "CList">>

BodyNodes(body, H, owner) ==
    [id \in {XNames[i] : i \in {j \in 1..Len(body) : IsChildLx(body[j])}}
        \cup {CNames[i] : i \in {j \in 1..Len(body) : body[j] = "cm"}} |->
        LET i == CHOOSE j \in 1..Len(body) : id \in {XNames[j], CNames[j]}
        IN  Node(IF body[i] = "cm" THEN "CommaToken" ELSE "Child",
                 PrevSigEnd(body, H, i), ItemOff(body, H, i), ItemEnd(body, H, i),
                 owner, <<>>, <<>>, JsDocOf(body, H, i))]

FileNodes(statements, listEnd, L) ==
    ("SF" :> Node("SourceFile", 0, 0, L, "none", <<"SFList", "EOF">>, statements, <<>>))
    @@ ("SFList" :> Node("SyntaxList", 0, 0, listEnd, "SF", statements, <<>>, <<>>))
    @@ ("EOF" :> Node("EndOfFileToken", listEnd, L, L, "SF", <<>>, <<>>, <<>>))

ContainerNodes(kind, variant, body, H, L) ==
    LET B      == Len(Flat(body))
        own    == ~OwnerIsFile(kind, variant)
        cpos   == ContainerPos(kind)
        cend   == CASE kind \in ClauseKinds -> LastSigEnd(body, H)
                    [] ~own -> H
                    [] kind \in {"ClassExpression", "ObjectLiteralExpression"} -> L - 1
                    [] OTHER -> L
        kids   == ContainerChildren(kind, variant)
        has(t) == \E k \in 1..Len(kids) : kids[k] = t
        kwPos  == IF variant = "modsMissing" THEN 1 ELSE cpos
        kwEnd  == IF variant = "modsMissing" THEN 3
                  ELSE IF kind \in ClauseKinds THEN 3 ELSE cpos + 1
    IN  ("C" :> Node(kind, cpos, ContainerStart(kind), cend,
                     IF kind \in WrapperKinds THEN "W" ELSE "SF", kids,
                     IF own THEN ChildIds(body) ELSE <<>>, <<>>))
        @@ ("CList" :> Node("SyntaxList", H, H,
                            IF own THEN LastSigEnd(body, H) ELSE H, "C",
                            IF own THEN ListChildIds(body) ELSE <<>>, <<>>, <<>>))
        @@ (IF kind \in WrapperKinds
            THEN "W" :> Node("Wrapper", 0, 0, L, "SF", <<"C">>, <<>>, <<>>)
            ELSE <<>>)
        @@ (IF has("Kw")
            THEN "Kw" :> Node("Keyword", kwPos, kwEnd - 1, kwEnd, "C", <<>>, <<>>, <<>>)
            ELSE <<>>)
        @@ (IF has("Open")
            THEN "Open" :> Node("OpenBraceToken", IF kind \in {"Block", "ModuleBlock"}
                                                  THEN cpos ELSE H - 1,
                                H - 1, H, "C", <<>>, <<>>, <<>>)
            ELSE <<>>)
        @@ (IF has("Close")
            THEN "Close" :> Node("CloseBraceToken", LastSigEnd(body, H), H + B,
                                 H + B + 1, "C", <<>>, <<>>, <<>>)
            ELSE <<>>)
        @@ (IF has("Colon")
            THEN "Colon" :> Token("ColonToken", 3, 4, "C")
            ELSE <<>>)
        @@ (IF has("ModList")
            THEN ("ModList" :> Node("SyntaxList", 0, 0, 1, "C", <<"Mod">>, <<>>, <<>>))
                 @@ ("Mod" :> Token("Modifier", 0, 1, "C"))
            ELSE <<>>)

\* the source file: its text and the nodes of its tree, by node id
MakeSourceFile(kind, variant, body) ==
    LET hdr   == Header(kind, variant)
        H     == Len(hdr)
        text  == hdr \o Flat(body) \o Footer(kind, variant)
        L     == Len(text)
        inFile == OwnerIsFile(kind, variant)
        top   == IF kind = "SourceFile" THEN <<>>
                 ELSE IF kind \in WrapperKinds THEN <<"W">> ELSE <<"C">>
        stmts == top \o (IF inFile THEN ChildIds(body) ELSE <<>>)
        listEnd == IF stmts = <<>> THEN 0
                   ELSE IF inFile THEN LastSigEnd(body, H) ELSE L
    IN  [text  |-> text,
         nodes |-> FileNodes(stmts, listEnd, L)
                   @@ BodyNodes(body, H, IF inFile THEN "SF" ELSE "C")
                   @@ (IF kind = "SourceFile" THEN <<>>
                       ELSE ContainerNodes(kind, variant, body, H, L))]

Alphabet(kind, variant) ==
    {"x", "nl", "sp", "sl", "ml", "doc", "emp"}
    \cup (IF kind \in StatementKinds \/ OwnerIsFile(kind, variant) THEN {"y"} ELSE {})
    \cup (IF kind \in CommaKinds /\ variant = "ok" THEN {"cm"} ELSE {})

\* a comma follows a member
WellFormed(body) ==
    \A i \in 1..Len(body) :
        body[i] = "cm" =>
            PrevSigIdx(body, i) # 0 /\ IsChildLx(body[PrevSigIdx(body, i)])

Bodies(kind, variant, max) ==
    {b \in UNION {[1..n -> Alphabet(kind, variant)] : n \in 0..max} : WellFormed(b)}

(***************************************************************************)
(* Text helpers.  Offsets count from 0; Ch is the character at an offset   *)
(* ("EOF" beyond the text, where JavaScript gives undefined).              *)
(***************************************************************************)
Ch(t, p) == IF p >= 0 /\ p < Len(t) THEN t[p + 1] ELSE "EOF"
TextOf(t, pos, end) == SubSeq(t, pos + 1, end)

\* StringUtils.getLineStartFromPos
RECURSIVE getLineStartFromPos(_, _)
getLineStartFromPos(t, pos) ==
    IF pos <= 0 THEN 0
    ELSE IF Ch(t, pos - 1) = "\n" THEN pos
    ELSE getLineStartFromPos(t, pos - 1)

(***************************************************************************)
(* The comment scanner (createCommentScanner): one cursor over the text of *)
(* a source file.  A comment token is [kind, fullStart, pos, end].         *)
(***************************************************************************)
IsCommentAt(t, p) == Ch(t, p) = "/" /\ Ch(t, p + 1) \in {"/", "*"}

RECURSIVE LineCommentEnd(_, _)
LineCommentEnd(t, p) ==
    IF p >= Len(t) \/ Ch(t, p) = "\n" THEN p ELSE LineCommentEnd(t, p + 1)

RECURSIVE BlockCommentEnd(_, _)
BlockCommentEnd(t, p) ==
    IF p >= Len(t) THEN Len(t)
    ELSE IF Ch(t, p) = "*" /\ Ch(t, p + 1) = "/" THEN p + 2
    ELSE BlockCommentEnd(t, p + 1)

CommentEnd(t, p) ==
    IF Ch(t, p + 1) = "/" THEN LineCommentEnd(t, p + 2) ELSE BlockCommentEnd(t, p + 2)

\* the documentation comments the parser attached to nodes of the tree
DocRanges(sf) ==
    UNION {{sf.nodes[n].jsDoc[k] : k \in 1..Len(sf.nodes[n].jsDoc)} : n \in DOMAIN sf.nodes}

CommentAt(sf, fullStart, p) ==
    Only({[kind |-> IF [pos |-> p, end |-> e] \in DocRanges(sf) THEN "JSDocComment"
                    ELSE IF Ch(sf.text, p + 1) = "/" THEN "SingleLineCommentTrivia"
                    ELSE "MultiLineCommentTrivia",
           fullStart |-> fullStart, pos |-> p, end |-> e] :
          e \in {CommentEnd(sf.text, p)}})

NewScanner == [parent |-> "none", fullStart |-> 0, pos |-> 0]
setParent(sc, node) == [sc EXCEPT !.parent = node]
setFullStartAndPos(sc, p) == [sc EXCEPT !.fullStart = p, !.pos = p]
setPos(sc, p) == [sc EXCEPT !.pos = p]

\* comments from the cursor up to the next significant token
RECURSIVE ScanUntilTokenFrom(_, _, _)
ScanUntilTokenFrom(sf, sc, acc) ==
    IF Ch(sf.text, sc.pos) \in {" ", "\n"}
    THEN ScanUntilTokenFrom(sf, setPos(sc, sc.pos + 1), acc)
    ELSE IF IsCommentAt(sf.text, sc.pos)
    THEN Only({ScanUntilTokenFrom(sf, setFullStartAndPos(sc, tok.end), Append(acc, tok)) :
               tok \in {CommentAt(sf, sc.fullStart, sc.pos)}})
    ELSE [comments |-> acc, scanner |-> sc]
scanUntilToken(sf, sc) == ScanUntilTokenFrom(sf, sc, <<>>)

\* comments from the cursor up to the next blank line or significant token;
\* blank lines before the first comment are passed over
RECURSIVE ScanForNewLinesFrom(_, _, _, _)
ScanForNewLinesFrom(sf, sc, acc, breaks) ==
    IF Ch(sf.text, sc.pos) = "\n"
    THEN IF acc # <<>> /\ breaks >= 1
         THEN [comments |-> acc, scanner |-> sc]
         ELSE ScanForNewLinesFrom(sf, setPos(sc, sc.pos + 1), acc,
                                  IF acc = <<>> THEN 0 ELSE breaks + 1)
    ELSE IF Ch(sf.text, sc.pos) = " "
    THEN ScanForNewLinesFrom(sf, setPos(sc, sc.pos + 1), acc, breaks)
    ELSE IF IsCommentAt(sf.text, sc.pos)
    THEN Only({ScanForNewLinesFrom(sf, setFullStartAndPos(sc, tok.end),
                                   Append(acc, tok), 0) :
               tok \in {CommentAt(sf, sc.fullStart, sc.pos)}})
    ELSE [comments |-> acc, scanner |-> sc]
scanForNewLines(sf, sc) == ScanForNewLinesFrom(sf, sc, <<>>, 0)

\* trivia from the cursor up to the first line break or significant token
RECURSIVE ScanUntilNewLineOrTokenFrom(_, _, _)
ScanUntilNewLineOrTokenFrom(sf, sc, acc) ==
    IF Ch(sf.text, sc.pos) = " "
    THEN ScanUntilNewLineOrTokenFrom(sf, setPos(sc, sc.pos + 1), acc)
    ELSE IF IsCommentAt(sf.text, sc.pos)
    THEN Only({ScanUntilNewLineOrTokenFrom(sf, setFullStartAndPos(sc, tok.end),
                                           Append(acc, tok)) :
               tok \in {CommentAt(sf, sc.fullStart, sc.pos)}})
    ELSE [comments |-> acc, scanner |-> sc]
scanUntilNewLineOrToken(sf, sc) == ScanUntilNewLineOrTokenFrom(sf, sc, <<>>)

(***************************************************************************)
(* CommentNodeParser.getContainerBodyPos.  The result is                   *)
(* [error, pos]: error is "none" when a position is returned.              *)
(***************************************************************************)
Returned(p) == [error |-> "none", pos |-> p]
Thrown(e) == [error |-> e, pos |-> 0]

Min(a, b) == IF a <= b THEN a ELSE b

\* variant: the pos of the token in place of its end
getTokenPos(sf, node, kind) ==
    LET kids == sf.nodes[node].children
        hits == {k \in 1..Len(kids) : sf.nodes[kids[k]].kind = kind}
    IN  IF hits = {} THEN Thrown("undefined")
        ELSE Returned(sf.nodes[kids[CHOOSE k \in hits : \A j \in hits : k <= j]].pos)

\* node.getChildren(sourceFile).find(c => c.kind === kind)?.end
getTokenEnd(sf, node, kind) ==
    LET kids == sf.nodes[node].children
        hits == {k \in 1..Len(kids) : sf.nodes[kids[k]].kind = kind}
    IN  IF hits = {} THEN Thrown("undefined")
        ELSE Returned(sf.nodes[kids[CHOOSE k \in hits : \A j \in hits : k <= j]].end)

\* variant: the first SyntaxList child in place of the last
getFirstSyntaxListPos(sf, node) ==
    LET kids == sf.nodes[node].children
        hits == {k \in 1..Len(kids) : sf.nodes[kids[k]].kind = "SyntaxList"}
    IN  IF hits = {}
        THEN Thrown("Unexpected scenario where a syntax list could not be found.")
        ELSE Returned(sf.nodes[kids[CHOOSE k \in hits : \A j \in hits : k <= j]].pos)

\* variant: without a SyntaxList child the pos of the node is returned
getLastSyntaxListPosOrNodePos(sf, node) ==
    LET kids == sf.nodes[node].children
        hits == {k \in 1..Len(kids) : sf.nodes[kids[k]].kind = "SyntaxList"}
    IN  IF hits = {}
        THEN Returned(sf.nodes[node].pos)
        ELSE Returned(sf.nodes[kids[CHOOSE k \in hits : \A j \in hits : j <= k]].pos)

getLastSyntaxListPos(sf, node) ==
    LET kids == sf.nodes[node].children
        hits == {k \in 1..Len(kids) : sf.nodes[kids[k]].kind = "SyntaxList"}
    IN  IF hits = {}
        THEN Thrown("Unexpected scenario where a syntax list could not be found.")
        ELSE Returned(sf.nodes[kids[CHOOSE k \in hits : \A j \in hits : j <= k]].pos)

\* a ?? b
Coalesce(a, b) == IF a.error = "none" THEN a ELSE b

getContainerBodyPos(sf, container) ==
    LET kind == sf.nodes[container].kind
    IN  IF kind = "SourceFile" THEN Returned(0)
        ELSE IF kind \in {"ClassDeclaration", "EnumDeclaration", "InterfaceDeclaration",
                          "TypeLiteral", "ClassExpression", "ObjectLiteralExpression"}
        THEN Coalesce(getTokenEnd(sf, container, "OpenBraceToken"),
                      getLastSyntaxListPos(sf, container))
        ELSE IF kind \in {"ModuleBlock", "Block"}
        THEN Returned(Min(sf.nodes[container].start + 1, sf.nodes["SF"].end))
        ELSE IF kind \in {"CaseClause", "DefaultClause"}
        THEN Coalesce(getTokenEnd(sf, container, "ColonToken"),
                      getLastSyntaxListPos(sf, container))
        ELSE Thrown("NotImplemented")

(***************************************************************************)
(* getNodes: the child sequence of a container.  An element of the         *)
(* sequence is a real child or a comment-list pseudo-node, both as         *)
(* [isList, id, fullStart, pos, end, comments, listKind]; for a real child *)
(* fullStart is its pos in the tree and pos its start without trivia.      *)
(***************************************************************************)
isStatementContainerNode(kind) == kind \in StatementKinds

getCtor(kind) ==
    IF isStatementContainerNode(kind) THEN "Statement"
    ELSE IF kind \in {"ClassDeclaration", "ClassExpression"} THEN "ClassElement"
    ELSE IF kind \in {"InterfaceDeclaration", "TypeLiteral"} THEN "TypeElement"
    ELSE IF kind = "ObjectLiteralExpression" THEN "ObjectLiteralElement"
    ELSE IF kind = "EnumDeclaration" THEN "EnumMember"
    ELSE "NotImplemented"

createCommentList(sf, container, fullStart, pos, end, comments) ==
    [isList |-> TRUE, id |-> container, fullStart |-> fullStart, pos |-> pos,
     end |-> end, comments |-> comments,
     listKind |-> getCtor(sf.nodes[container].kind)]

ChildElem(sf, id) ==
    [isList |-> FALSE, id |-> id, fullStart |-> sf.nodes[id].pos,
     pos |-> sf.nodes[id].start, end |-> sf.nodes[id].end, comments |-> <<>>,
     listKind |-> "none"]

\* container.statements, container.members or container.properties
getContainerChildren(sf, container) == sf.nodes[container].members

\* variant: no comment counts as a JSDoc comment
isNeverJsDocComment(sf, comment) == FALSE

isJsDocComment(sf, comment) ==
    \/ comment.kind = "JSDocComment"
    \/ LET text == TextOf(sf.text, comment.pos, comment.end)
       IN  /\ Len(text) >= 3
           /\ SubSeq(text, 1, 3) = <<"/", "*", "*">>
           /\ text # <<"/", "*", "*", "*", "/">>

\* skipTrailingLine: [scanner, skipped, commas], where skipped are the comments
\* drained and commas the offsets of the commas stepped over
RECURSIVE SkipTrailingLineLoop(_, _, _, _)
SkipTrailingLineLoop(sf, sc, skipped, commas) ==
    Only({IF Ch(sf.text, r.scanner.pos) # ","
          THEN [scanner |-> r.scanner, skipped |-> skipped \o r.comments,
                commas |-> commas]
          ELSE SkipTrailingLineLoop(sf, setPos(r.scanner, r.scanner.pos + 1),
                                    skipped \o r.comments,
                                    Append(commas, r.scanner.pos)) :
          r \in {scanUntilNewLineOrToken(sf, sc)}})

\* variant: the header line is skipped at offset 0 too
skipTrailingLineAtZero(sf, sc) == SkipTrailingLineLoop(sf, sc, <<>>, <<>>)

skipTrailingLine(sf, sc) ==
    IF sc.pos = 0
    THEN [scanner |-> sc, skipped |-> <<>>, commas |-> <<>>]
    ELSE SkipTrailingLineLoop(sf, sc, <<>>, <<>>)

\* variant: a list that ends with its first comment
MakeListOfFirst(sf, container, comments) ==
    createCommentList(sf, container, comments[1].fullStart, comments[1].pos,
                      comments[1].end, comments)

\* lines 324-326: the comment list made of one group of comments
MakeList(sf, container, comments) ==
    createCommentList(sf, container, comments[1].fullStart, comments[1].pos,
                      Last(comments).end, comments)

\* getLeadingComments: [scanner, scans, made], where scans are the results of
\* scanForNewLines in order and made the comment lists created from them
RECURSIVE GetLeadingCommentsLoop(_, _, _, _, _, _)
GetLeadingCommentsLoop(sf, container, sc, stopAtJsDoc, scans, made) ==
    Only({IF Len(r.comments) = 0
          THEN [scanner |-> r.scanner, scans |-> Append(scans, r.comments), made |-> made]
          ELSE IF stopAtJsDoc
                  /\ \E k \in 1..Len(r.comments) : isJsDocComment(sf, r.comments[k])
          THEN [scanner |-> r.scanner, scans |-> Append(scans, r.comments), made |-> made]
          ELSE GetLeadingCommentsLoop(sf, container, r.scanner, stopAtJsDoc,
                   Append(scans, r.comments),
                   Append(made, MakeList(sf, container, r.comments))) :
          r \in {scanForNewLines(sf, sc)}})

getLeadingComments(sf, container, sc, stopAtJsDoc) ==
    GetLeadingCommentsLoop(sf, container, sc, stopAtJsDoc, <<>>, <<>>)

\* variant: the ceiling is the stop position on every line
MaxEndAtPos(sf, pos) == pos

\* line 290: maxEnd
MaxEndAt(sf, pos) ==
    IF Len(sf.text) = pos \/ Ch(sf.text, pos) = "}"
    THEN pos
    ELSE getLineStartFromPos(sf.text, pos)

\* getCommentNodes: one scan pass from the scanner's position.  The result
\* carries the comment lists yielded and a record of the pass.
getCommentNodes(sf, container, sc, stopAtJsDoc) ==
    Only({Only({Only({Only({
        [scanner |-> leading.scanner,
         yielded |-> yielded,
         pass    |-> [start |-> sc.pos, stopAtJsDoc |-> stopAtJsDoc,
                      skipped |-> skip.skipped, commas |-> skip.commas,
                      afterSkip |-> skip.scanner.pos,
                      scans |-> leading.scans, made |-> leading.made,
                      pos |-> leading.scanner.pos, maxEnd |-> maxEnd,
                      yielded |-> yielded]] :
        yielded \in {SelectSeq(leading.made, LAMBDA l : l.end <= maxEnd)}}) :
        maxEnd \in {MaxEndAt(sf, leading.scanner.pos)}}) :
        leading \in {getLeadingComments(sf, container, skip.scanner, stopAtJsDoc)}}) :
        skip \in {skipTrailingLine(sf, sc)}})

\* variant: the child before its comment lists
YieldAfterChild(sf, elems, yielded, childNode) ==
    Append(elems, ChildElem(sf, childNode)) \o yielded

\* lines 273-274: the comment lists before a child, then the child
YieldBeforeChild(sf, elems, yielded, childNode) ==
    Append(elems \o yielded, ChildElem(sf, childNode))

\* variant: the trailing pass starts where the last child's trivia starts
TrailingStartAtPos(sf, lastChild) == sf.nodes[lastChild].pos

\* line 279: where the pass after the last child starts
TrailingStart(sf, lastChild) == sf.nodes[lastChild].end

\* variant: only the pos is set, the full start stays where the last
\* enumeration left it
StartScanAtPosOnly(sc, pos) == setPos(sc, pos)

\* lines 266, 271, 278: scanner.setFullStartAndPos(...) before each scan
StartScanAt(sc, pos) == setFullStartAndPos(sc, pos)

RECURSIVE GetNodesLoop(_, _, _, _, _, _, _)
GetNodesLoop(sf, container, sc, childNodes, i, elems, passes) ==
    IF i > Len(childNodes)
    THEN Only({[error |-> "none", elems |-> elems \o r.yielded,
                passes |-> Append(passes, r.pass), scanner |-> r.scanner] :
               r \in {getCommentNodes(sf, container,
                          StartScanAt(sc, TrailingStart(sf, Last(childNodes))),
                          FALSE)}})
    ELSE Only({GetNodesLoop(sf, container, r.scanner, childNodes, i + 1,
                            YieldBeforeChild(sf, elems, r.yielded, childNodes[i]),
                            Append(passes, r.pass)) :
               r \in {getCommentNodes(sf, container,
                          StartScanAt(sc, sf.nodes[childNodes[i]].pos), TRUE)}})

\* [error, elems, passes, scanner]: the sequence, the record of the scan
\* passes made for it, and the scanner as the enumeration leaves it
getNodes(sf, container, scanner) ==
    IF sf.nodes[container].kind \notin commentNodeParserKinds
    THEN [error |-> "NotImplemented", elems |-> <<>>, passes |-> <<>>,
          scanner |-> scanner]
    ELSE IF Len(getContainerChildren(sf, container)) = 0
    THEN Only({IF bodyStartPos.error # "none"
               THEN [error |-> bodyStartPos.error, elems |-> <<>>, passes |-> <<>>,
                     scanner |-> setParent(scanner, container)]
               ELSE Only({[error |-> "none", elems |-> r.yielded,
                           passes |-> <<r.pass>>, scanner |-> r.scanner] :
                          r \in {getCommentNodes(sf, container,
                                     StartScanAt(setParent(scanner, container),
                                                 bodyStartPos.pos),
                                     FALSE)}}) :
               bodyStartPos \in {getContainerBodyPos(sf, container)}})
    ELSE GetNodesLoop(sf, container, setParent(scanner, container),
                      getContainerChildren(sf, container), 1, <<>>, <<>>)

(***************************************************************************)
(* State.                                                                  *)
(*   input          the shape the source file was built from               *)
(*   sourceFile     the text and the frozen tree                           *)
(*   childrenSaver  WeakMap container -> child sequence (line 20)          *)
(*   tokenSaver     WeakMap node -> token sequence (line 21)               *)
(*   cachedScanners WeakMap source file -> comment scanner (line 445)      *)
(*   ret            the last call and what it returned                     *)
(*   passes         for each container, the scan passes of the last        *)
(*                  computation of its children                            *)
(*   computed       how often each sequence has been computed              *)
(*   first          the array each key's first successful call returned    *)
(*   declarations   the declarations of a file whose modifiers are edited: *)
(*                  for each its modifier list and whether its parent is   *)
(*                  the source file                                        *)
(*   exportAssignment  the declaration an `export default X;` statement of *)
(*                  that file names ("none" without such a statement)      *)
(*   outcome        the last modifier or export call, its error, and the   *)
(*                  modifiers its declaration had before it                *)
(* A WeakMap is a function whose domain is the set of keys it holds.  An   *)
(* array is [ref, elems]: ref names the allocation (site, node, list, n:   *)
(* the n-th array made at that site for that node), so two arrays are the  *)
(* identical reference exactly when their refs are equal.                  *)
(***************************************************************************)
VARIABLES input, sourceFile, childrenSaver, tokenSaver, cachedScanners, ret,
          passes, computed, first, declarations, exportAssignment, outcome

vars == <<input, sourceFile, childrenSaver, tokenSaver, cachedScanners, ret,
          passes, computed, first, declarations, exportAssignment, outcome>>

\* the variables of the comment parser and those of the modifier calls
parserVars == <<input, sourceFile, childrenSaver, tokenSaver, cachedScanners, ret,
                passes, computed, first>>
modifierVars == <<declarations, exportAssignment, outcome>>

NoOutcome == [op |-> "none", declaration |-> "none", text |-> "none",
              value |-> "undefined", error |-> "none", before |-> <<>>]

\* no declaration is edited while the comment parser is queried
NoModifierCalls ==
    /\ declarations = <<>>
    /\ exportAssignment = "none"
    /\ outcome = NoOutcome

EmptyMap == <<>>
Has(map, key) == key \in DOMAIN map
Set(map, key, value) == [k \in DOMAIN map \cup {key} |-> IF k = key THEN value ELSE map[k]]

Ref(site, node, list, n) == [site |-> site, node |-> node, list |-> list, n |-> n]
NoRef == Ref("none", "none", 0, 0)
Key(node, list) == [node |-> node, list |-> list]
NoRet == [op |-> "none", key |-> Key("none", 0), error |-> "none", ref |-> NoRef,
          elems |-> <<>>, pos |-> 0]

isSyntaxList(node) == sourceFile.nodes[node].kind = "SyntaxList"

InitWith(max) ==
    /\ \E kind \in commentNodeParserKinds :
         \E variant \in Variants(kind) :
           \E body \in Bodies(kind, variant, max) :
             /\ input = [kind |-> kind, variant |-> variant, body |-> body]
             /\ sourceFile = MakeSourceFile(kind, variant, body)
    /\ childrenSaver = EmptyMap
    /\ tokenSaver = EmptyMap
    /\ cachedScanners = EmptyMap
    /\ ret = NoRet
    /\ passes = EmptyMap
    /\ computed = EmptyMap
    /\ first = EmptyMap
    /\ NoModifierCalls

\* the nodes a caller may pass as a container
ContainerIds == {n \in DOMAIN sourceFile.nodes :
                    sourceFile.nodes[n].kind \in commentNodeParserKinds}
SyntaxListIds == {n \in DOMAIN sourceFile.nodes : isSyntaxList(n)}

\* variant: a syntax list is its own container
RedirectNone(container) == container

\* lines 151-152, 173-174: the container whose entry a node's children are
\* stored under
Redirect(container) ==
    IF isSyntaxList(container) THEN sourceFile.nodes[container].parent ELSE container

(***************************************************************************)
(* CommentNodeParser.getOrParseChildren(container, sourceFile).  The       *)
(* operator works on a memory m = [childrenSaver, cachedScanners, passes,  *)
(* computed] and gives the memory after the call, the error thrown ("none" *)
(* when the call returns) and the array returned.                          *)
(***************************************************************************)
Memory == [childrenSaver |-> childrenSaver, cachedScanners |-> cachedScanners,
           passes |-> passes, computed |-> computed]
NoArray == [ref |-> NoRef, elems |-> <<>>]
CountIn(m, op, key) ==
    IF Has(m.computed, <<op, key>>) THEN m.computed[<<op, key>>] ELSE 0

\* line 446: getScannerForSourceFile
getScannerForSourceFile(m) ==
    IF Has(m.cachedScanners, "SF") THEN m.cachedScanners["SF"] ELSE NewScanner

\* variant: the computed children are not stored
StoreNoChildren(m, container, children) == m.childrenSaver

\* line 158: childrenSaver.set(container, children)
StoreChildren(m, container, children) == Set(m.childrenSaver, container, children)

getOrParseChildren(m, node) ==
    IF Has(m.childrenSaver, Redirect(node))
    THEN [mem |-> m, error |-> "none", value |-> m.childrenSaver[Redirect(node)]]
    ELSE Only({
        IF r.error # "none"
        THEN [mem |-> [m EXCEPT !.cachedScanners = Set(m.cachedScanners, "SF", r.scanner)],
              error |-> r.error, value |-> NoArray]
        ELSE Only({
            [mem |-> [childrenSaver |-> StoreChildren(m, container, children),
                      cachedScanners |-> Set(m.cachedScanners, "SF", r.scanner),
                      passes |-> Set(m.passes, container, r.passes),
                      computed |-> Set(m.computed, <<"children", Key(container, 0)>>,
                                       children.ref.n)],
             error |-> "none", value |-> children] :
            children \in {[ref |-> Ref("children", container, 0,
                                       CountIn(m, "children", Key(container, 0)) + 1),
                           elems |-> r.elems]}}) :
        container \in {Redirect(node)},
        r \in {getNodes(sourceFile, Redirect(node), getScannerForSourceFile(m))}})

\* the first array a successful call returned for a key
Remember(f, op, key, call) ==
    IF call.error # "none" \/ Has(f, <<op, key>>) THEN f
    ELSE Set(f, <<op, key>>, call.value)

Result(op, key, call) ==
    [op |-> op, key |-> key, error |-> call.error, ref |-> call.value.ref,
     elems |-> call.value.elems, pos |-> 0]

GetOrParseChildren(node) ==
    /\ CountIn(Memory, "children", Key(Redirect(node), 0)) < MaxCompute
    /\ \E call \in {getOrParseChildren(Memory, node)} :
          /\ childrenSaver' = call.mem.childrenSaver
          /\ cachedScanners' = call.mem.cachedScanners
          /\ passes' = call.mem.passes
          /\ computed' = call.mem.computed
          /\ ret' = Result("getOrParseChildren", Key(node, 0), call)
          /\ first' = Remember(first, "children", Key(Redirect(node), 0), call)
    /\ UNCHANGED <<input, sourceFile, tokenSaver>>
    /\ UNCHANGED modifierVars

\* CommentNodeParser.hasParsedChildren(container)
hasParsedChildren(container) == Has(childrenSaver, Redirect(container))

\* CommentNodeParser.getContainerBodyPos(container, sourceFile)
GetContainerBodyPos(container) ==
    /\ \E r \in {getContainerBodyPos(sourceFile, container)} :
          ret' = [op |-> "getContainerBodyPos", key |-> Key(container, 0),
                  error |-> r.error, ref |-> NoRef, elems |-> <<>>, pos |-> r.pos]
    /\ UNCHANGED <<input, sourceFile, childrenSaver, tokenSaver, cachedScanners,
                   passes, computed, first>>
    /\ UNCHANGED modifierVars

(***************************************************************************)
(* CommentNodeParser.getOrParseTokens(node, sourceFile).  A key of         *)
(* tokenSaver is a node of the tree, Key(node, 0), or the comment list     *)
(* that is element k of the children of a container, Key(container, k).    *)
(* A comment token in a token sequence has the shape of an element, with   *)
(* its kind as listKind.                                                   *)
(***************************************************************************)
CommentElem(tok) ==
    [isList |-> FALSE, id |-> "comment", fullStart |-> tok.fullStart, pos |-> tok.pos,
     end |-> tok.end, comments |-> <<>>, listKind |-> tok.kind]

singleSyntaxListParents ==
    {"SourceFile", "Block", "ModuleBlock", "CaseClause", "DefaultClause"}
openBraceSyntaxListParents ==
    {"ClassDeclaration", "InterfaceDeclaration", "EnumDeclaration", "ClassExpression",
     "TypeLiteral", "ObjectLiteralExpression"}

isChildSyntaxList(node) ==
    LET parent == sourceFile.nodes[node].parent
        kids   == sourceFile.nodes[parent].children
        braces == {k \in 1..Len(kids) : sourceFile.nodes[kids[k]].kind = "OpenBraceToken"}
    IN  IF sourceFile.nodes[parent].kind \in singleSyntaxListParents THEN TRUE
        ELSE IF sourceFile.nodes[parent].kind \notin openBraceSyntaxListParents THEN FALSE
        ELSE IF braces = {} THEN FALSE
        ELSE LET b == CHOOSE k \in braces : \A j \in braces : k <= j
             IN  b + 1 <= Len(kids) /\ kids[b + 1] = node

\* for (const comment of scanner.scanUntilToken()) { if (...) break; ... }
\* with the break at comment.pos === bound (test "at") or at
\* comment.pos > bound (test "after"): the comments taken before the break,
\* and the scanner as the loop leaves it
ScanUntilBreak(sc, test, bound) ==
    Only({Only({IF hits = {}
                THEN [taken |-> r.comments, scanner |-> r.scanner]
                ELSE Only({[taken |-> SubSeq(r.comments, 1, b - 1),
                            scanner |-> setFullStartAndPos(sc, r.comments[b].end)] :
                           b \in {CHOOSE k \in hits : \A j \in hits : k <= j}}) :
                hits \in {{k \in 1..Len(r.comments) :
                              IF test = "at" THEN r.comments[k].pos = bound
                              ELSE r.comments[k].pos > bound}}}) :
          r \in {scanUntilToken(sourceFile, sc)}})

Elements(tokens) == [k \in 1..Len(tokens) |-> CommentElem(tokens[k])]

\* variant: the documentation comment of the child is not looked at
ChildStartOfNode(child) == child.pos

\* line 67: ((child as any).jsDoc?.[0] || child).getStart(sourceFile)
ChildStart(child) ==
    IF ~child.isList /\ Len(sourceFile.nodes[child.id].jsDoc) > 0
    THEN sourceFile.nodes[child.id].jsDoc[1].pos
    ELSE child.pos

getSearchEnd(syntaxList) ==
    LET parent == sourceFile.nodes[syntaxList].parent
        kids   == sourceFile.nodes[parent].children
        at     == CHOOSE k \in 1..Len(kids) : kids[k] = syntaxList
    IN  IF sourceFile.nodes[parent].kind = "SourceFile"
        THEN sourceFile.nodes[parent].end
        ELSE IF at + 1 <= Len(kids)
                /\ sourceFile.nodes[kids[at + 1]].kind = "CloseBraceToken"
        THEN sourceFile.nodes[kids[at + 1]].end - 1
        ELSE sourceFile.nodes["SF"].end

RECURSIVE ParseChildSyntaxListLoop(_, _, _, _, _)
ParseChildSyntaxListLoop(sc, children, i, result, searchEnd) ==
    IF i > Len(children)
    THEN Only({[elems |-> result \o Elements(r.taken), scanner |-> r.scanner] :
               r \in {ScanUntilBreak(sc, "after", searchEnd)}})
    ELSE Only({ParseChildSyntaxListLoop(setFullStartAndPos(r.scanner, children[i].end),
                   children, i + 1, Append(result \o Elements(r.taken), children[i]),
                   searchEnd) :
               r \in {ScanUntilBreak(sc, "at", ChildStart(children[i]))}})

parseChildSyntaxList(m, syntaxList, n) ==
    Only({
        IF call.error # "none"
        THEN [mem |-> call.mem, error |-> call.error, value |-> NoArray]
        ELSE Only({
            [mem |-> [call.mem EXCEPT
                         !.cachedScanners = Set(call.mem.cachedScanners, "SF", r.scanner)],
             error |-> "none",
             value |-> [ref |-> Ref("tokens", syntaxList, 0, n), elems |-> r.elems]] :
            r \in {ParseChildSyntaxListLoop(
                       setFullStartAndPos(
                           setParent(getScannerForSourceFile(call.mem),
                                     sourceFile.nodes[syntaxList].parent),
                           sourceFile.nodes[syntaxList].pos),
                       call.value.elems, 1, <<>>, getSearchEnd(syntaxList))}}) :
        call \in {getOrParseChildren(m, syntaxList)}})

RECURSIVE ParseNodeLoop(_, _, _, _, _)
ParseNodeLoop(sc, children, i, result, lastEnd) ==
    IF i > Len(children)
    THEN [elems |-> result, scanner |-> sc]
    ELSE Only({Only({
        ParseNodeLoop(r.scanner, children, i + 1,
            Append(result \o Elements(r.taken), ChildElem(sourceFile, children[i])),
            IF i + 1 <= Len(children) /\ childIsSyntaxList
            THEN sourceFile.nodes[children[i + 1]].start
            ELSE sourceFile.nodes[children[i]].end) :
        r \in {IF sourceFile.nodes[children[i]].kind # "EndOfFileToken"
               THEN ScanUntilBreak(setFullStartAndPos(sc, lastEnd), "after",
                        IF childIsSyntaxList THEN sourceFile.nodes[children[i]].pos
                        ELSE sourceFile.nodes[children[i]].start)
               ELSE [taken |-> <<>>, scanner |-> sc]}}) :
        childIsSyntaxList \in {isSyntaxList(children[i]) /\ isChildSyntaxList(children[i])}})

parseNode(m, node, n) ==
    IF Len(sourceFile.nodes[node].children) <= 1
    THEN [mem |-> m, error |-> "none",
          value |-> [ref |-> Ref("getChildren", node, 0, 1),
                     elems |-> [k \in 1..Len(sourceFile.nodes[node].children) |->
                                   ChildElem(sourceFile, sourceFile.nodes[node].children[k])]]]
    ELSE Only({
        [mem |-> [m EXCEPT !.cachedScanners = Set(m.cachedScanners, "SF", r.scanner)],
         error |-> "none",
         value |-> [ref |-> Ref("tokens", node, 0, n), elems |-> r.elems]] :
        r \in {ParseNodeLoop(setParent(getScannerForSourceFile(m), node),
                             sourceFile.nodes[node].children, 2,
                             <<ChildElem(sourceFile, sourceFile.nodes[node].children[1])>>,
                             sourceFile.nodes[sourceFile.nodes[node].children[1]].end)}})

\* line 48: getTokens
getTokens(m, key, n) ==
    IF key.list # 0
    THEN [mem |-> m, error |-> "none",
          value |-> [ref |-> Ref("comments", key.node, key.list,
                                 m.childrenSaver[key.node].ref.n),
                     elems |-> Elements(m.childrenSaver[key.node].elems[key.list].comments)]]
    ELSE IF isSyntaxList(key.node) /\ isChildSyntaxList(key.node)
    THEN parseChildSyntaxList(m, key.node, n)
    ELSE parseNode(m, key.node, n)

\* line 44: tokenSaver.set(node, tokens)
StoreTokens(key, tokens) == Set(tokenSaver, key, tokens)

\* the children array that a token query on a syntax list made on the way
\* is the first array of the container
RememberChildren(f, key, saved) ==
    IF key.list = 0 /\ isSyntaxList(key.node) /\ Has(saved, Redirect(key.node))
    THEN Remember(f, "children", Key(Redirect(key.node), 0),
                  [error |-> "none", value |-> saved[Redirect(key.node)]])
    ELSE f

GetOrParseTokens(key) ==
    IF Has(tokenSaver, key)
    THEN /\ ret' = Result("getOrParseTokens", key,
                          [error |-> "none", value |-> tokenSaver[key]])
         /\ UNCHANGED <<input, sourceFile, childrenSaver, tokenSaver, cachedScanners,
                        passes, computed, first>>
         /\ UNCHANGED modifierVars
    ELSE /\ CountIn(Memory, "tokens", key) < MaxCompute
         /\ \E call \in {getTokens(Memory, key, CountIn(Memory, "tokens", key) + 1)} :
               /\ childrenSaver' = call.mem.childrenSaver
               /\ cachedScanners' = call.mem.cachedScanners
               /\ passes' = call.mem.passes
               /\ computed' = IF call.error = "none"
                              THEN Set(call.mem.computed, <<"tokens", key>>,
                                       CountIn(Memory, "tokens", key) + 1)
                              ELSE call.mem.computed
               /\ tokenSaver' = IF call.error = "none"
                                THEN StoreTokens(key, call.value) ELSE tokenSaver
               /\ ret' = Result("getOrParseTokens", key, call)
               /\ first' = RememberChildren(Remember(first, "tokens", key, call),
                                            key, call.mem.childrenSaver)
         /\ UNCHANGED <<input, sourceFile>>
         /\ UNCHANGED modifierVars

\* the keys the queries are drawn from: the innermost container, its syntax
\* list, and the comment lists of the child sequences computed so far
TokenNodes ==
    IF "C" \in DOMAIN sourceFile.nodes THEN {"C", "CList"} ELSE {"SF", "SFList"}

TokenKeys ==
    {Key(n, 0) : n \in TokenNodes}
    \cup UNION {{Key(c, k) : k \in {j \in 1..Len(childrenSaver[c].elems) :
                                      childrenSaver[c].elems[j].isList}} :
                   c \in DOMAIN childrenSaver}

\* CommentNodeParser.hasParsedTokens(node)
hasParsedTokens(key) == Has(tokenSaver, key)

(***************************************************************************)
(* Spec: any sequence of queries on one source file.                       *)
(***************************************************************************)
Init == InitWith(MaxMemoItems)

Next ==
    \/ \E n \in ContainerIds \cup SyntaxListIds : GetOrParseChildren(n)
    \/ \E k \in TokenKeys : GetOrParseTokens(k)

Spec == Init /\ [][Next]_vars

(***************************************************************************)
(* SpecBodyPos: getContainerBodyPos asked for the containers of a source   *)
(* file.                                                                   *)
(***************************************************************************)
InitBodyPos == InitWith(MaxBodyPosItems)

NextBodyPos == \E c \in ContainerIds : GetContainerBodyPos(c)

SpecBodyPos == InitBodyPos /\ [][NextBodyPos]_vars

(***************************************************************************)
(* SpecNodes: getNodes as a function of the tree and the text.  A source   *)
(* file is drawn and the children of one of its containers are computed.   *)
(***************************************************************************)
InitNodes == InitWith(MaxItems)

NextNodes ==
    /\ ret = NoRet
    /\ \E c \in ContainerIds : GetOrParseChildren(c)

SpecNodes == InitNodes /\ [][NextNodes]_vars

(***************************************************************************)
(* SpecErrors: queries that may fail.  The tree is one the parser gives,   *)
(* or such a tree in which getChildren() gives the container no SyntaxList *)
(* child (the scenario line 242 guards against); a query may also be made  *)
(* for a node that is no container.                                        *)
(***************************************************************************)
ListsOf(sf) ==
    {n \in DOMAIN sf.nodes :
        n \in {"Mod"} \/ (sf.nodes[n].kind = "SyntaxList" /\ sf.nodes[n].parent = "C")}

WithoutSyntaxLists(sf) ==
    [text  |-> sf.text,
     nodes |-> [n \in DOMAIN sf.nodes \ ListsOf(sf) |->
                   IF n = "C"
                   THEN [sf.nodes[n] EXCEPT
                            !.children = SelectSeq(sf.nodes[n].children,
                                                   LAMBDA k : k \notin ListsOf(sf))]
                   ELSE sf.nodes[n]]]

InitErrors ==
    /\ \E kind \in commentNodeParserKinds :
         \E variant \in Variants(kind) :
           \E body \in Bodies(kind, variant, MaxErrorItems) :
             /\ input = [kind |-> kind, variant |-> variant, body |-> body]
             /\ sourceFile \in {MakeSourceFile(kind, variant, body)}
                   \cup (IF kind = "SourceFile" THEN {}
                         ELSE {WithoutSyntaxLists(MakeSourceFile(kind, variant, body))})
    /\ childrenSaver = EmptyMap
    /\ tokenSaver = EmptyMap
    /\ cachedScanners = EmptyMap
    /\ ret = NoRet
    /\ passes = EmptyMap
    /\ computed = EmptyMap
    /\ first = EmptyMap
    /\ NoModifierCalls

\* the nodes that are neither a container nor a syntax list
OtherIds == DOMAIN sourceFile.nodes \ (ContainerIds \cup SyntaxListIds)

NextErrors ==
    \/ \E n \in ContainerIds \cup SyntaxListIds \cup OtherIds : GetOrParseChildren(n)
    \/ \E k \in {t \in TokenKeys : t.node \in DOMAIN sourceFile.nodes} :
          GetOrParseTokens(k)

SpecErrors == InitErrors /\ [][NextErrors]_vars

(***************************************************************************)
(* ModifierableNode and ExportableNode.  A file is [declarations,          *)
(* exportAssignment]: declarations gives each declaration its modifier     *)
(* list, in text order, and whether its parent is the source file.         *)
(* An operation gives the file after it, or [file, error].                 *)
(***************************************************************************)
ModifierTexts == {"export", "default", "declare", "abstract"}

\* the declarations of the file, in the order of the text
DeclarationNames == <<"A", "B">>

File == [declarations |-> declarations, exportAssignment |-> exportAssignment]

\* ModifierableNode.getModifiers, hasModifier
getModifiers(f, d) == f.declarations[d].modifiers
hasModifier(f, d, text) ==
    \E k \in 1..Len(getModifiers(f, d)) : getModifiers(f, d)[k] = text

\* the modifiers after which a modifier is put
getAddAfterModifierTexts(text) ==
    CASE text = "export"   -> {}
      [] text = "default"  -> {"export"}
      [] text = "declare"  -> {"export", "default"}
      [] text = "abstract" -> {"export", "default", "declare"}

\* the end of the last modifier of the list that the new one goes after
\* (0: the start of the declaration)
InsertIndex(modifiers, text) ==
    Cardinality({k \in 1..Len(modifiers) :
                    \E j \in k..Len(modifiers) :
                        modifiers[j] \in getAddAfterModifierTexts(text)})

InsertAt(modifiers, i, text) ==
    SubSeq(modifiers, 1, i) \o <<text>> \o SubSeq(modifiers, i + 1, Len(modifiers))

\* variant: a new modifier is put at the start of the declaration
addModifierAtStart(f, d, text) ==
    IF hasModifier(f, d, text) THEN f
    ELSE [f EXCEPT !.declarations[d].modifiers = <<text>> \o @]

\* ModifierableNode.addModifier(text)
addModifier(f, d, text) ==
    IF hasModifier(f, d, text) THEN f
    ELSE [f EXCEPT !.declarations[d].modifiers = InsertAt(@, InsertIndex(@, text), text)]

\* removeNodes(modifier)
removeModifier(f, d, text) ==
    [f EXCEPT !.declarations[d].modifiers = SelectSeq(@, LAMBDA m : m # text)]

\* the values of the optional parameter of toggleModifier
ToggleValues == {"true", "false", "undefined"}

\* variant: the value given is not looked at
toggleModifierFlipping(f, d, text, value) ==
    IF hasModifier(f, d, text) THEN removeModifier(f, d, text)
    ELSE addModifier(f, d, text)

\* ModifierableNode.toggleModifier(text, value?)
toggleModifier(f, d, text, value) ==
    IF value = "true" \/ (value = "undefined" /\ ~hasModifier(f, d, text))
    THEN addModifier(f, d, text)
    ELSE removeModifier(f, d, text)

\* lines 26-49
hasExportKeyword(f, d) == hasModifier(f, d, "export")
hasDefaultKeyword(f, d) == hasModifier(f, d, "default")

\* SourceFile.getDefaultExportSymbol: the first declaration of the default
\* export of the file, an `export default` declaration of the file or its
\* export assignment
NoSymbol == [declaration |-> "none", isAssignment |-> FALSE]
getDefaultExportSymbol(f) ==
    Only({IF exported # <<>>
          THEN [declaration |-> exported[1], isAssignment |-> FALSE]
          ELSE IF f.exportAssignment # "none"
          THEN [declaration |-> f.exportAssignment, isAssignment |-> TRUE]
          ELSE NoSymbol :
          exported \in {SelectSeq(DeclarationNames,
                            LAMBDA d : /\ f.declarations[d].parentIsSourceFile
                                       /\ hasExportKeyword(f, d)
                                       /\ hasDefaultKeyword(f, d))}})

\* lines 54-69
isDefaultExport(f, d) ==
    \/ hasDefaultKeyword(f, d)
    \/ getDefaultExportSymbol(f).declaration = d

\* SourceFile.removeDefaultExport(symbol)
removeDefaultExport(f, symbol) ==
    IF symbol.isAssignment THEN [f EXCEPT !.exportAssignment = "none"]
    ELSE toggleModifier(toggleModifier(f, symbol.declaration, "default", "false"),
                        symbol.declaration, "export", "false")

Done(f) == [file |-> f, error |-> "none"]
Throw(f, e) == [file |-> f, error |-> e]

\* lines 92-96: remove any existing default export
RemoveExisting(f) ==
    IF getDefaultExportSymbol(f) # NoSymbol
    THEN removeDefaultExport(f, getDefaultExportSymbol(f))
    ELSE f

\* lines 99-102: set this node as the one to default export
SetAsDefault(f, d, value) ==
    IF value THEN addModifier(addModifier(f, d, "export"), d, "default") ELSE f

\* variant: the parent is looked at after the existing default export is
\* removed
setIsDefaultExportCheckingLate(f, d, value) ==
    IF value = isDefaultExport(f, d) THEN Done(f)
    ELSE IF value /\ ~f.declarations[d].parentIsSourceFile
    THEN Throw(RemoveExisting(f), "InvalidOperationError")
    ELSE Done(SetAsDefault(RemoveExisting(f), d, value))

\* lines 84-105: ExportableNode.setIsDefaultExport(value)
setIsDefaultExport(f, d, value) ==
    IF value = isDefaultExport(f, d) THEN Done(f)
    ELSE IF value /\ ~f.declarations[d].parentIsSourceFile
    THEN Throw(f, "InvalidOperationError")
    ELSE Done(SetAsDefault(RemoveExisting(f), d, value))

Outcome(op, d, text, value, error) ==
    [op |-> op, declaration |-> d, text |-> text, value |-> value, error |-> error,
     before |-> declarations[d].modifiers]

AddModifier(d, text) ==
    /\ \E f \in {addModifier(File, d, text)} :
          /\ declarations' = f.declarations
          /\ exportAssignment' = f.exportAssignment
    /\ outcome' = Outcome("addModifier", d, text, "undefined", "none")
    /\ UNCHANGED parserVars

ToggleModifier(d, text, value) ==
    /\ \E f \in {toggleModifier(File, d, text, value)} :
          /\ declarations' = f.declarations
          /\ exportAssignment' = f.exportAssignment
    /\ outcome' = Outcome("toggleModifier", d, text, value, "none")
    /\ UNCHANGED parserVars

SetIsDefaultExport(d, value) ==
    /\ \E r \in {setIsDefaultExport(File, d, value)} :
          /\ declarations' = r.file.declarations
          /\ exportAssignment' = r.file.exportAssignment
          /\ outcome' = Outcome("setIsDefaultExport", d, "none",
                                IF value THEN "true" ELSE "false", r.error)
    /\ UNCHANGED parserVars

(***************************************************************************)
(* SpecModifiers: any sequence of addModifier, toggleModifier and          *)
(* setIsDefaultExport calls on the declarations of a file.  The file is    *)
(* one that compiles: the modifiers of a declaration are in the order the  *)
(* language asks for, `default` comes with `export` on a declaration of    *)
(* the file, and the file has at most one default export.                  *)
(***************************************************************************)
ModifierOrder == <<"export", "default", "declare", "abstract">>

SourceModifiers ==
    {SelectSeq(ModifierOrder, LAMBDA m : m \in chosen) :
        chosen \in {c \in SUBSET ModifierTexts : "default" \in c => "export" \in c}}

InitModifiers ==
    /\ \E modsA \in SourceModifiers, modsB \in SourceModifiers, inFileB \in BOOLEAN :
          /\ declarations = [d \in {"A", "B"} |->
                                [modifiers |-> IF d = "A" THEN modsA ELSE modsB,
                                 parentIsSourceFile |-> d = "A" \/ inFileB]]
          /\ ~inFileB => \A k \in 1..Len(modsB) : modsB[k] # "default"
          /\ exportAssignment \in {"none", "A"} \cup (IF inFileB THEN {"B"} ELSE {})
          /\ Cardinality({d \in {"A", "B"} :
                             \E k \in 1..Len(IF d = "A" THEN modsA ELSE modsB) :
                                (IF d = "A" THEN modsA ELSE modsB)[k] = "default"})
                + (IF exportAssignment = "none" THEN 0 ELSE 1) <= 1
    /\ outcome = NoOutcome
    /\ input = [kind |-> "none", variant |-> "none", body |-> <<>>]
    /\ sourceFile = [text |-> <<>>, nodes |-> <<>>]
    /\ childrenSaver = EmptyMap
    /\ tokenSaver = EmptyMap
    /\ cachedScanners = EmptyMap
    /\ ret = NoRet
    /\ passes = EmptyMap
    /\ computed = EmptyMap
    /\ first = EmptyMap

NextModifiers ==
    \/ \E d \in DOMAIN declarations, text \in ModifierTexts : AddModifier(d, text)
    \/ \E d \in DOMAIN declarations, text \in ModifierTexts, value \in ToggleValues :
          ToggleModifier(d, text, value)
    \/ \E d \in DOMAIN declarations, value \in BOOLEAN : SetIsDefaultExport(d, value)

SpecModifiers == InitModifiers /\ [][NextModifiers]_vars

(***************************************************************************)
(* Properties of the computed child sequences (under SpecNodes).           *)
(***************************************************************************)
Parsed == DOMAIN childrenSaver
Elems(c) == childrenSaver[c].elems
Span(e) == e.pos..(e.end - 1)
TextLen == Len(sourceFile.text)

\* the offsets of the text that lie inside a comment
CommentOffsets ==
    LET H == Len(Header(input.kind, input.variant))
    IN  UNION {ItemOff(input.body, H, i)..(CommentEndOf(input.body, H, i) - 1) :
                  i \in {j \in 1..Len(input.body) :
                            input.body[j] \in {"sl", "ml", "doc", "emp"}}}

\* the body of a container: for a source file the whole text, for a nested
\* container the text between its header and its footer
BodySpan(c) ==
    LET H == Len(Header(input.kind, input.variant))
    IN  IF sourceFile.nodes[c].kind = "SourceFile" THEN 0..(TextLen - 1)
        ELSE IF OwnerIsFile(input.kind, input.variant) THEN {}
        ELSE H..(H + Len(Flat(input.body)) - 1)

LineBreaksIn(a, b) == Cardinality({q \in a..(b - 1) : Ch(sourceFile.text, q) = "\n"})

\* C3: in every computed child sequence the elements are strictly
\* increasing by start offset and each starts at or after the end of the
\* element before it.
C3_Ordered ==
    \A c \in Parsed :
        \A i \in 1..(Len(Elems(c)) - 1) :
            /\ Elems(c)[i].pos < Elems(c)[i + 1].pos
            /\ Elems(c)[i].end <= Elems(c)[i + 1].pos

\* a sequence of a real child between a comment list and another element
C3_Witness ==
    \E c \in Parsed :
        /\ Len(Elems(c)) = 3
        /\ ~Elems(c)[2].isList
        /\ Elems(c)[1].isList \/ Elems(c)[3].isList

PassIds == UNION {{<<c, k>> : k \in 1..Len(passes[c])} : c \in DOMAIN passes}
Pass(id) == passes[id[1]][id[2]]
\* the passes before a real child; the last pass of a container is the pass
\* after its last child, or the only pass of a container without children
IsLeadingPass(id) == id[2] < Len(passes[id[1]])

\* a documentation comment as the claims describe it
IsDocComment(comment) ==
    \/ comment.kind = "JSDocComment"
    \/ /\ comment.end - comment.pos >= 3
       /\ Ch(sourceFile.text, comment.pos) = "/"
       /\ Ch(sourceFile.text, comment.pos + 1) = "*"
       /\ Ch(sourceFile.text, comment.pos + 2) = "*"
       /\ ~(/\ comment.end - comment.pos = 5
            /\ Ch(sourceFile.text, comment.pos + 3) = "*"
            /\ Ch(sourceFile.text, comment.pos + 4) = "/")
HasDocComment(comments) == \E k \in 1..Len(comments) : IsDocComment(comments[k])

C6_JsDocStop ==
    /\ \A id \in PassIds :
           LET p == Pass(id)
               n == Len(p.scans)
           IN  IF IsLeadingPass(id)
               THEN /\ \A i \in 1..n : HasDocComment(p.scans[i]) => i = n
                    /\ \A i \in 1..Len(p.made) : ~HasDocComment(p.made[i].comments)
                    /\ HasDocComment(p.scans[n]) => Len(p.made) = n - 1
               ELSE /\ p.scans[n] = <<>>
                    /\ Len(p.made) = n - 1
    /\ \A c \in Parsed :
           \A i, j \in 1..Len(Elems(c)) :
               (i < j /\ Elems(c)[i].isList /\ ~Elems(c)[j].isList)
                   => ~HasDocComment(Elems(c)[i].comments)

\* a pass before a child that stopped at a group of a plain comment and a
\* documentation comment
C6_Witness ==
    \E id \in PassIds :
        LET last == Pass(id).scans[Len(Pass(id).scans)]
        IN  /\ IsLeadingPass(id)
            /\ HasDocComment(last)
            /\ \E k \in 1..Len(last) : ~IsDocComment(last[k])

\* where a trailing-line skip from offset start must leave the cursor: at
\* the first offset that is outside every comment and holds neither a blank
\* nor a comma
SkipTarget(start) ==
    CHOOSE q \in start..TextLen :
        /\ q \notin CommentOffsets /\ Ch(sourceFile.text, q) \notin {" ", ","}
        /\ \A r \in start..(q - 1) :
               r \in CommentOffsets \/ Ch(sourceFile.text, r) \in {" ", ","}

CommentsOf(lists) ==
    UNION {{lists[i].comments[k] : k \in 1..Len(lists[i].comments)} : i \in 1..Len(lists)}

\* C7: a pass that starts at a non-zero offset first drains the trivia up
\* to the first line break or significant token, stepping over every comma
\* it stops at; no comment drained by the skip is in any comment list.  A
\* pass that starts at offset 0 skips nothing.
C7_SkipTrailingLine ==
    \A id \in PassIds :
        LET p == Pass(id)
        IN  /\ p.start = 0 =>
                /\ p.afterSkip = 0
                /\ p.skipped = <<>>
                /\ p.commas = <<>>
            /\ p.start # 0 =>
                /\ p.afterSkip = SkipTarget(p.start)
                /\ \A q \in p.start..(p.afterSkip - 1) :
                       Ch(sourceFile.text, q) = "," <=>
                           \E k \in 1..Len(p.commas) : p.commas[k] = q
                /\ \A q \in (p.start..(p.afterSkip - 1)) \cap CommentOffsets :
                       \E k \in 1..Len(p.skipped) :
                           q \in p.skipped[k].pos..(p.skipped[k].end - 1)
            /\ \A k \in 1..Len(p.skipped) :
                   /\ p.start <= p.skipped[k].pos
                   /\ p.skipped[k].end <= p.afterSkip
                   /\ \A c \in Parsed :
                          \A e \in CommentsOf(Elems(c)) :
                              e.pos # p.skipped[k].pos
                   /\ \A id2 \in PassIds :
                          \A e \in CommentsOf(Pass(id2).made) :
                              e.pos # p.skipped[k].pos

\* a pass that drained a comment, stepped over a comma and drained another
C7_Witness ==
    \E id \in PassIds :
        /\ Pass(id).commas # <<>>
        /\ \E k \in 1..Len(Pass(id).skipped) :
               Pass(id).skipped[k].pos > Pass(id).commas[1]

\* the ceiling of a pass as the claim gives it
Ceiling(pos) ==
    IF pos = TextLen \/ Ch(sourceFile.text, pos) = "}" THEN pos
    ELSE CHOOSE q \in 0..pos :
             /\ q = 0 \/ Ch(sourceFile.text, q - 1) = "\n"
             /\ \A r \in (q + 1)..pos : Ch(sourceFile.text, r - 1) # "\n"

\* C9: a pass yields exactly the comment lists it made that end at or
\* before the ceiling; hence no yielded list ends on the line of the
\* scanner's stopping position unless a close brace or the end of the text
\* is there.
C9_Ceiling ==
    \A id \in PassIds :
        LET p == Pass(id)
        IN  /\ p.yielded = SelectSeq(p.made, LAMBDA l : l.end <= Ceiling(p.pos))
            /\ \A i \in 1..Len(p.yielded) :
                   (p.pos # TextLen /\ Ch(sourceFile.text, p.pos) # "}")
                       => LineBreaksIn(p.yielded[i].end, p.pos) >= 1
            /\ \A i \in 1..Len(Elems(id[1])) :
                   Elems(id[1])[i].isList =>
                       \E id2 \in PassIds :
                           /\ id2[1] = id[1]
                           /\ \E k \in 1..Len(Pass(id2).yielded) :
                                  Pass(id2).yielded[k] = Elems(id[1])[i]

\* a pass that made a comment list and held it back for the ceiling
C9_Witness ==
    \E id \in PassIds :
        /\ Len(Pass(id).made) = 1
        /\ Pass(id).yielded = <<>>
        /\ Ch(sourceFile.text, Pass(id).pos) \notin {"}", "EOF"}

\* the body start of a container as the claims give it
ChildrenOfKind(c, kind) ==
    {k \in 1..Len(sourceFile.nodes[c].children) :
        sourceFile.nodes[sourceFile.nodes[c].children[k]].kind = kind}
FirstOfKind(c, kind) ==
    sourceFile.nodes[c].children[CHOOSE k \in ChildrenOfKind(c, kind) :
                                     \A j \in ChildrenOfKind(c, kind) : k <= j]
LastOfKind(c, kind) ==
    sourceFile.nodes[c].children[CHOOSE k \in ChildrenOfKind(c, kind) :
                                     \A j \in ChildrenOfKind(c, kind) : j <= k]
ExpectedBodyPos(c) ==
    LET kind == sourceFile.nodes[c].kind
        mark == IF kind \in ClauseKinds THEN "ColonToken" ELSE "OpenBraceToken"
    IN  CASE kind = "SourceFile" -> 0
          [] kind \in {"Block", "ModuleBlock"} ->
                IF sourceFile.nodes[c].start + 1 <= TextLen
                THEN sourceFile.nodes[c].start + 1 ELSE TextLen
          [] OTHER ->
                IF ChildrenOfKind(c, mark) # {}
                THEN sourceFile.nodes[FirstOfKind(c, mark)].end
                ELSE sourceFile.nodes[LastOfKind(c, "SyntaxList")].pos

\* the comments of the body, as sets of offsets
BodyComments ==
    LET H == Len(Header(input.kind, input.variant))
    IN  {ItemOff(input.body, H, i)..(CommentEndOf(input.body, H, i) - 1) :
            i \in {j \in 1..Len(input.body) :
                      input.body[j] \in {"sl", "ml", "doc", "emp"}}}

\* C8 as stated: the object literal { /* only */ } yields exactly one
\* comment list, which wraps the comment.
C8_Original ==
    (/\ input.kind = "ObjectLiteralExpression"
     /\ input.body = <<"sp", "ml", "sp">>
     /\ "C" \in Parsed)
        => /\ Len(Elems("C")) = 1
           /\ Elems("C")[1].isList
           /\ Len(Elems("C")[1].comments) = 1

\* C8 amended: a container without real children is scanned in one pass
\* that starts at its body start (for an object literal the end of the
\* open-brace token) and keeps documentation comments, and its sequence is
\* what that pass yields; an object literal without properties that holds
\* one comment yields one comment list wrapping it exactly when a line
\* break lies between the open brace and the comment, and nothing otherwise.
C8_EmptyContainer ==
    \A c \in Parsed :
        sourceFile.nodes[c].members = <<>> =>
            /\ Len(passes[c]) = 1
            /\ passes[c][1].start = ExpectedBodyPos(c)
            /\ passes[c][1].scans[Len(passes[c][1].scans)] = <<>>
            /\ Elems(c) = passes[c][1].yielded
            /\ \A i \in 1..Len(Elems(c)) : Elems(c)[i].isList
            /\ (/\ sourceFile.nodes[c].kind = "ObjectLiteralExpression"
                /\ Cardinality(BodyComments) = 1)
                   => LET only == CHOOSE b \in BodyComments : TRUE
                          at == CHOOSE q \in only : \A r \in only : q <= r
                      IN  /\ passes[c][1].start = sourceFile.nodes["Open"].end
                          /\ IF LineBreaksIn(sourceFile.nodes["Open"].end, at) >= 1
                             THEN /\ Len(Elems(c)) = 1
                                  /\ Len(Elems(c)[1].comments) = 1
                                  /\ Elems(c)[1].pos = at
                                  /\ Elems(c)[1].end = at + Cardinality(only)
                             ELSE Elems(c) = <<>>

\* the object literal with its comment on the line after the open brace
C8_Witness ==
    /\ input.kind = "ObjectLiteralExpression"
    /\ input.body = <<"nl", "ml", "sp">>
    /\ "C" \in Parsed
    /\ Len(Elems("C")) = 1

\* C10: getContainerBodyPos returns 0 for a source file, min(start + 1, end
\* of text) for a block or module block, and for the other containers the
\* end of the first open-brace (for a clause: colon) child token, else the
\* pos of the last SyntaxList child; the result is never beyond the text.
C10_BodyPos ==
    ret.op = "getContainerBodyPos" =>
        /\ ret.error = "none"
        /\ ret.pos = ExpectedBodyPos(ret.key.node)
        /\ ret.pos <= TextLen

\* the call on a class that has no open brace and two syntax lists
C10_Witness ==
    /\ ret.op = "getContainerBodyPos"
    /\ sourceFile.nodes[ret.key.node].kind = "ClassDeclaration"
    /\ ChildrenOfKind(ret.key.node, "OpenBraceToken") = {}
    /\ Cardinality(ChildrenOfKind(ret.key.node, "SyntaxList")) = 2

(***************************************************************************)
(* The memoization protocol, checked under Spec.                           *)
(***************************************************************************)
FirstOf(op, key) == first[<<op, key>>]

C1_Returned ==
    /\ (ret.op = "getOrParseChildren" /\ ret.error = "none") =>
          LET key == Key(Redirect(ret.key.node), 0)
          IN  /\ Has(first, <<"children", key>>)
              /\ ret.ref = FirstOf("children", key).ref
              /\ ret.elems = FirstOf("children", key).elems
    /\ (ret.op = "getOrParseTokens" /\ ret.error = "none") =>
          /\ Has(first, <<"tokens", ret.key>>)
          /\ ret.ref = FirstOf("tokens", ret.key).ref
          /\ ret.elems = FirstOf("tokens", ret.key).elems
    /\ \A k \in DOMAIN computed : computed[k] <= 1
    /\ \A c \in DOMAIN childrenSaver :
          childrenSaver[c] = FirstOf("children", Key(c, 0))
    /\ \A k \in DOMAIN tokenSaver : tokenSaver[k] = FirstOf("tokens", k)

C1_Kept ==
    /\ \A c \in DOMAIN childrenSaver :
          Has(childrenSaver', c) /\ childrenSaver'[c] = childrenSaver[c]
    /\ \A k \in DOMAIN tokenSaver :
          Has(tokenSaver', k) /\ tokenSaver'[k] = tokenSaver[k]

\* C1: a getOrParseChildren or getOrParseTokens query returns the array the
\* first successful query for that container or node returned, each sequence
\* is computed at most once, and no query removes or changes an entry that
\* is already in childrenSaver or tokenSaver.
C1_Memoized == [](C1_Returned) /\ [][C1_Kept]_vars

\* getOrParseChildren asked again for the innermost container, after the
\* tokens of one of its comment lists and the children of the source file
\* were computed
C1_Witness ==
    /\ ret.op = "getOrParseChildren"
    /\ ret.key.node = "C"
    /\ ret.ref = Ref("children", "C", 0, 1)
    /\ Has(childrenSaver, "SF")
    /\ \E k \in DOMAIN tokenSaver : k.node = "C" /\ k.list > 0

C2_Redirected ==
    /\ \A list \in SyntaxListIds :
          /\ ~Has(childrenSaver, list)
          /\ hasParsedChildren(list) = hasParsedChildren(sourceFile.nodes[list].parent)
    /\ \A c \in ContainerIds \cup SyntaxListIds :
          hasParsedChildren(c) <=> CountIn(Memory, "children", Key(Redirect(c), 0)) >= 1
    /\ (ret.op = "getOrParseChildren" /\ isSyntaxList(ret.key.node)) =>
          LET parent == sourceFile.nodes[ret.key.node].parent
          IN  /\ ret.error = "none"
              /\ Has(childrenSaver, parent)
              /\ ret.ref = childrenSaver[parent].ref
              /\ ret.ref = FirstOf("children", Key(parent, 0)).ref
              /\ ret.ref.node = parent

C2_Monotone ==
    \A c \in ContainerIds \cup SyntaxListIds :
        hasParsedChildren(c) => hasParsedChildren(c)'

\* C2: a SyntaxList never has an entry of its own in childrenSaver,
\* getOrParseChildren(list) returns the array of getOrParseChildren(list.parent)
\* whichever is asked first, and hasParsedChildren(list) equals
\* hasParsedChildren(list.parent): false until the children are computed and
\* true from then on.
C2_SyntaxList == [](C2_Redirected) /\ [][C2_Monotone]_vars

\* the syntax list is asked after its parent, and the parent's array, which
\* holds a comment list, comes back
C2_Witness ==
    /\ ret.op = "getOrParseChildren"
    /\ ret.key.node = "CList"
    /\ ret.ref = Ref("children", "C", 0, 1)
    /\ \E i \in 1..Len(ret.elems) : ret.elems[i].isList
    /\ hasParsedChildren("CList")
    /\ ~hasParsedChildren("SFList")

(***************************************************************************)
(* Failing queries (under SpecErrors).                                     *)
(***************************************************************************)
\* the claim's cases of failure, read off the tree: the node asked for (its
\* parent, for a syntax list) is of no recognized container kind, or it has
\* no members, no open-brace or colon token and no SyntaxList child
HasChildOfKind(c, kinds) ==
    \E k \in 1..Len(sourceFile.nodes[c].children) :
        sourceFile.nodes[sourceFile.nodes[c].children[k]].kind \in kinds

ExpectFailure(node) ==
    LET c == Redirect(node)
    IN  \/ sourceFile.nodes[c].kind \notin commentNodeParserKinds
        \/ /\ sourceFile.nodes[c].members = <<>>
           /\ ~HasChildOfKind(c, {"OpenBraceToken", "ColonToken", "SyntaxList"})

SavedRefs ==
    [k \in {<<"children", Key(c, 0)>> : c \in DOMAIN childrenSaver}
           \cup {<<"tokens", t>> : t \in DOMAIN tokenSaver} |->
        IF k[1] = "children" THEN childrenSaver[k[2].node] ELSE tokenSaver[k[2]]]

\* C11 (states): a getOrParseChildren query raises an error exactly in the
\* cases of failure; after a failed query no entry is stored for its
\* container (hasParsedChildren is false for it) and nothing is returned;
\* every stored sequence is the array its key's first successful query
\* returned, and a successful query returns the stored array.
C11_Raised ==
    /\ ret.op = "getOrParseChildren" =>
          /\ (ret.error # "none") = ExpectFailure(ret.key.node)
          /\ ret.error # "none" =>
                /\ ~hasParsedChildren(ret.key.node)
                /\ ~Has(childrenSaver, ret.key.node)
                /\ ret.ref = NoRef
          /\ ret.error = "none" => ret.ref = childrenSaver[Redirect(ret.key.node)].ref
    /\ \A k \in DOMAIN SavedRefs : Has(first, k) /\ SavedRefs[k] = first[k]

\* C11 (steps): a failed query leaves the cached sequences of all
\* containers and nodes as they were.
C11_Others ==
    ret'.error # "none" => childrenSaver' = childrenSaver /\ tokenSaver' = tokenSaver

\* C11: when computing a container's children fails, the query raises an
\* error, no entry is stored for that container, and the cached sequences of
\* all other containers and nodes are unchanged and still returned by
\* identical reference.
C11_FailedQuery == [](C11_Raised) /\ [][C11_Others]_vars

\* a query failed for want of a SyntaxList child while a non-empty child
\* sequence and a token sequence were cached
C11_Witness ==
    /\ ret.op = "getOrParseChildren"
    /\ ret.error = "Unexpected scenario where a syntax list could not be found."
    /\ \E c \in DOMAIN childrenSaver : Len(childrenSaver[c].elems) > 0
    /\ DOMAIN tokenSaver # {}

\* a query failed for a node of no recognized container kind while a
\* non-empty child sequence was cached
C11_WitnessKind ==
    /\ ret.op = "getOrParseChildren"
    /\ ret.error = "NotImplemented"
    /\ \E c \in DOMAIN childrenSaver : Len(childrenSaver[c].elems) > 0

(***************************************************************************)
(* Order of the queries (under Spec).                                      *)
(***************************************************************************)
\* the memory before any query, with a scanner nothing has moved yet
FreshMemory ==
    [childrenSaver |-> EmptyMap, cachedScanners |-> EmptyMap, passes |-> EmptyMap,
     computed |-> EmptyMap]

\* what the first query of a run computes for a key
AloneChildren(c) == getNodes(sourceFile, c, NewScanner).elems
AloneTokens(key) ==
    IF key.list # 0 THEN Elements(AloneChildren(key.node)[key.list].comments)
    ELSE getTokens(FreshMemory, key, 1).value.elems

\* C12: the sequence computed for a node is a function of the tree and the
\* source text only: whatever queries went before on the shared scanner,
\* each cached and each returned child or token sequence has the contents
\* that a query made first, on an untouched scanner, computes; so any two
\* orders of queries give each node the same contents.
C12_Deterministic ==
    /\ \A c \in DOMAIN childrenSaver : childrenSaver[c].elems = AloneChildren(c)
    /\ \A k \in DOMAIN tokenSaver : tokenSaver[k].elems = AloneTokens(k)
    /\ ret.op = "getOrParseChildren" /\ ret.error = "none"
          => ret.elems = AloneChildren(Redirect(ret.key.node))
    /\ ret.op = "getOrParseTokens" /\ ret.error = "none"
          => ret.elems = AloneTokens(ret.key)

\* the sequences of two containers and a token sequence were computed one
\* after another on the shared scanner, comments among them
C12_Witness ==
    /\ Cardinality(DOMAIN childrenSaver) >= 2
    /\ \E c \in DOMAIN childrenSaver :
          \E k \in 1..Len(childrenSaver[c].elems) : childrenSaver[c].elems[k].isList
    /\ \E t \in DOMAIN tokenSaver :
          /\ t.list = 0
          /\ \E k \in 1..Len(tokenSaver[t].elems) : tokenSaver[t].elems[k].id = "comment"
    /\ Cardinality(DOMAIN tokenSaver) >= 2

(***************************************************************************)
(* Token sequences of child syntax lists (under Spec).                     *)
(***************************************************************************)
\* the syntax lists that are the direct child list of a container and whose
\* token sequence is cached
ChildListKeys ==
    {k \in DOMAIN tokenSaver :
        k.list = 0 /\ isSyntaxList(k.node) /\ isChildSyntaxList(k.node)}

IsCommentToken(e) ==
    /\ e.id = "comment"
    /\ ~e.isList
    /\ e.listKind \in {"SingleLineCommentTrivia", "MultiLineCommentTrivia", "JSDocComment"}

\* where a child element starts: a comment list at its pos, a real child at
\* its attached documentation comment if it has one, else at its start
StartOfElement(e) ==
    IF e.isList \/ sourceFile.nodes[e.id].jsDoc = <<>> THEN e.pos
    ELSE sourceFile.nodes[e.id].jsDoc[1].pos

\* C16: the token sequence of a container's direct child list holds every
\* element of the container's cached child sequence exactly once and in the
\* same order; every other element is a single comment token; and no
\* comment token that starts where a following child element (or its
\* attached doc comment) starts comes before that element.
C16_ChildListTokens ==
    \A key \in ChildListKeys :
        LET tokens == tokenSaver[key].elems
        IN  /\ hasParsedChildren(key.node)
            /\ SelectSeq(tokens, LAMBDA e : ~IsCommentToken(e))
                  = childrenSaver[Redirect(key.node)].elems
            /\ \A i \in 1..Len(tokens) : \A j \in 1..Len(tokens) :
                  i < j /\ IsCommentToken(tokens[i]) /\ ~IsCommentToken(tokens[j])
                     => tokens[i].pos # StartOfElement(tokens[j])

\* a cached token sequence of a child list in which a comment token comes
\* before a child that has a doc comment, or before a comment list
C16_Witness ==
    \E key \in ChildListKeys :
        \E i \in 1..Len(tokenSaver[key].elems) : \E j \in 1..Len(tokenSaver[key].elems) :
            /\ i < j
            /\ IsCommentToken(tokenSaver[key].elems[i])
            /\ ~IsCommentToken(tokenSaver[key].elems[j])
            /\ StartOfElement(tokenSaver[key].elems[j]) # tokenSaver[key].elems[j].pos
                  \/ tokenSaver[key].elems[j].isList

(***************************************************************************)
(* Modifiers and default exports (under SpecModifiers).                    *)
(***************************************************************************)
ModifiersOf(d) == declarations[d].modifiers
TextsIn(modifiers) == {modifiers[k] : k \in 1..Len(modifiers)}
Without(modifiers, text) == SelectSeq(modifiers, LAMBDA m : m # text)

\* C13 (states): the modifier list of every declaration holds each of its
\* modifiers once, in the one order export, default, declare, abstract; so
\* the list is a function of the set of modifiers added, not of the order
\* of the calls.
C13_Sorted ==
    \A d \in DOMAIN declarations :
        ModifiersOf(d) = SelectSeq(ModifierOrder, LAMBDA m : m \in TextsIn(ModifiersOf(d)))

\* C13 (calls): addModifier leaves the list with the modifiers it had and
\* the added one, and as it was when the modifier was present.
C13_Added ==
    outcome.op = "addModifier" =>
        /\ TextsIn(ModifiersOf(outcome.declaration))
              = TextsIn(outcome.before) \cup {outcome.text}
        /\ outcome.text \in TextsIn(outcome.before)
              => ModifiersOf(outcome.declaration) = outcome.before

C14_Toggled ==
    outcome.op = "toggleModifier" =>
        /\ outcome.value = "true" => outcome.text \in TextsIn(ModifiersOf(outcome.declaration))
        /\ outcome.value = "false" => outcome.text \notin TextsIn(ModifiersOf(outcome.declaration))
        /\ outcome.value = "undefined" =>
              (outcome.text \in TextsIn(ModifiersOf(outcome.declaration)))
                 = (outcome.text \notin TextsIn(outcome.before))
        /\ Without(ModifiersOf(outcome.declaration), outcome.text)
              = Without(outcome.before, outcome.text)
        /\ Len(ModifiersOf(outcome.declaration))
              <= Len(Without(outcome.before, outcome.text)) + 1

\* C14 (steps): the same toggle with the same value a second time changes
\* nothing, and a toggle changes no other declaration.
C14_Again ==
    outcome'.op = "toggleModifier" =>
        /\ \A d \in DOMAIN declarations \ {outcome'.declaration} :
              declarations'[d] = declarations[d]
        /\ exportAssignment' = exportAssignment
        /\ (/\ outcome.op = "toggleModifier"
            /\ outcome'.declaration = outcome.declaration
            /\ outcome'.text = outcome.text
            /\ outcome'.value = outcome.value
            /\ outcome.value # "undefined") => declarations' = declarations

C15_Step ==
    outcome'.op = "setIsDefaultExport" =>
        LET d     == outcome'.declaration
            value == outcome'.value = "true"
        IN  /\ value = isDefaultExport(File, d) =>
                  /\ outcome'.error = "none"
                  /\ declarations' = declarations
                  /\ exportAssignment' = exportAssignment
            /\ (/\ value # isDefaultExport(File, d)
                /\ value
                /\ ~declarations[d].parentIsSourceFile) =>
                  /\ outcome'.error = "InvalidOperationError"
                  /\ declarations' = declarations
                  /\ exportAssignment' = exportAssignment

C15_SetIsDefaultExport == [][C15_Step]_vars

\* the call threw for a declaration inside a namespace while the file had a
\* default export, which is still there
C15_Witness ==
    /\ outcome.op = "setIsDefaultExport"
    /\ outcome.error = "InvalidOperationError"
    /\ getDefaultExportSymbol(File) # NoSymbol

====
